---- MODULE Spec2Model ----
(***************************************************************************)
(* Decision core of pura/stock-analysis.                                   *)
(*                                                                         *)
(*  - Position Ledger: agents/top_gainers/top_gainers_trade_agent.py       *)
(*    (process_trade_signals, get_open_position, record_buy, record_sale)  *)
(*  - Alert Throttle:  agents/monitor_agent.py (should_alert) over the     *)
(*    alert_log table of core/database.py                                  *)
(*  - Signal store:    core/database.py (store_signal, signals table)      *)
(*  - Signal Detector: core/signals.py (detect_signals)                    *)
(*                                                                         *)
(* Prices are integers (a fixed-point unit) and times are integer ticks;   *)
(* the code's REAL columns and ISO timestamps are only copied, compared    *)
(* and subtracted, which integers model exactly.                           *)
(***************************************************************************)
EXTENDS Integers, Sequences, FiniteSets, TLC

\* ------------------------------------------------------------------ bounds
\* Number of trend cycles (distinct "Scraped At (UTC)" values) written.
MaxCycles == 3
\* Minutes the clock of the alert throttle runs.
MaxNow == 3
\* Number of store_signal calls.
MaxStoreCalls == 4
\* ------------------------------------------------------------- value sets
\* SQL NULL / Python None in a numeric or time column.
NULL == 0 - 1

\* get_latest_trends orders its rows by "Symbol" ASC.
SymbolOrder == <<"AAA", "BBB">>
Symbols == {SymbolOrder[k] : k \in 1..Len(SymbolOrder)}
TrendLabels == {"Up", "Down"}
\* The "Now" column of a trend row that has a price.
RowPrices == {1, 2}
\* Trend and price of the rows a cycle may hold for one symbol: every label
\* with every price, and the two falsy prices of the skip path (None and 0),
\* which is taken before the label is looked at.
RowChoices == (TrendLabels \X RowPrices) \cup {<<"Up", NULL>>, <<"Down", 0>>}
\* The symbols the trend cycles of the concurrent specification carry.
ConcSymbols == {"AAA"}
\* Operating-system processes that may run process_trade_signals.
Procs == {"main", "other"}

VARIABLES
    clock,          \* "Scraped At (UTC)" of the latest trend cycle (0: none yet)
    trend_table,    \* rows of yahoo_top_gainers_trend at the latest timestamp
    trades,         \* yahoo_top_gainers_trades, in id order
    pc,             \* per process: position inside process_trade_signals
    trends,         \* per process: local `trends` (list of dicts)
    i,              \* per process: loop index into `trends`
    open_position,  \* per process: local `open_position` ({} is None)
    action,         \* per process: local `action`
    profit,         \* per process: local `profit`
    sale_log,       \* what record_sale last logged: <<buy_price, profit>> or <<>>
    call,           \* the last direct call of a ledger write operation
    alert_log,      \* the alert_log table: at most one row per symbol
    now,            \* datetime.utcnow(), in minutes
    verdict,        \* the last should_alert call and what it returned
    evaluation,     \* per process: its should_alert call in progress
    signals,        \* the signals table, in id order
    signal_id,      \* the last store_signal call and what it returned
    window,         \* the arguments of the last detect_signals call
    detected,       \* what the last detect_signals call returned
    slope_call,     \* the arguments of the last compute_trend_from_slope call
    trend_up,       \* what the last compute_trend_from_slope call returned
    trend_call,     \* the arguments of the last determine_trend call
    trend,          \* what the last determine_trend call returned
    run,            \* process_most_active_trends: its phase and bar windows
    http_log,       \* the responses the running _get call has received
    get_outcome,    \* how the last _get call ended (<<>>: not ended)
    monitored,      \* the last monitor_symbol call and what it returned
    alerts          \* the alerts monitor_symbol has returned, in order

ledgerVars == <<clock, trend_table, trades, pc, trends, i, open_position,
                action, profit, sale_log, call>>

alertVars == <<alert_log, now, verdict>>

concVars == <<evaluation>>

signalVars == <<signals, signal_id>>

detectVars == <<window, detected>>

slopeVars == <<slope_call, trend_up>>

\* The variables of the most-active trend agent.
trendVars == <<trend_call, trend>>

fetchVars == <<run, http_log, get_outcome>>

monitorVars == <<monitored, alerts>>

agentVars == <<slopeVars, trendVars, fetchVars>>

\* What the Position Ledger's steps leave alone.
nonLedgerVars == <<alert_log, now, verdict, evaluation, signals, signal_id,
                   window, detected, agentVars, monitorVars>>

\* What the Alert Throttle's sequential steps leave alone.
nonAlertVars == <<clock, trend_table, trades, pc, trends, i, open_position,
                  action, profit, sale_log, call, evaluation, signals,
                  signal_id, window, detected, agentVars, monitorVars>>

vars == <<clock, trend_table, trades, pc, trends, i, open_position,
          action, profit, sale_log, call, alert_log, now, verdict,
          evaluation, signals, signal_id, window, detected, agentVars, monitorVars>>

\* ------------------------------------------------------------ trend table

\* One TrendRow: what get_latest_trends returns per row.
TrendRow(s, t, p, ts) ==
    [Symbol |-> s, Trend |-> t, Price |-> p, ScrapedAt |-> ts]

\* The rows one trend cycle may write: one row per symbol at most, at least
\* one row, all stamped with the cycle's timestamp.
TrendCycles(syms, ts) ==
    LET Choice == RowChoices \cup {<<>>}
        RowsOf(f) == {TrendRow(s, f[s][1], f[s][2], ts) :
                        s \in {x \in syms : f[x] # <<>>}}
    IN  {RowsOf(f) : f \in {g \in [syms -> Choice] :
                              \E x \in syms : g[x] # <<>>}}

\* SELECT MAX("Scraped At (UTC)"): NULL on an empty table.
LatestTs(tbl) ==
    IF tbl = {} THEN NULL
    ELSE CHOOSE ts \in {r.ScrapedAt : r \in tbl} :
            \A r \in tbl : r.ScrapedAt <= ts

\* get_latest_trends: the rows at the latest timestamp, ordered by symbol.
RECURSIVE RowsInOrder(_, _)
RowsInOrder(rows, k) ==
    IF k > Len(SymbolOrder) THEN <<>>
    ELSE LET here == {r \in rows : r.Symbol = SymbolOrder[k]}
         IN  (IF here = {} THEN <<>> ELSE <<CHOOSE r \in here : TRUE>>)
             \o RowsInOrder(rows, k + 1)

get_latest_trends(tbl) ==
    LET latest_ts == LatestTs(tbl)
    IN  IF latest_ts = NULL THEN <<>>
        ELSE RowsInOrder({r \in tbl : r.ScrapedAt = latest_ts}, 1)

\* ----------------------------------------------------------- trades table

\* get_stock_name: the name stored for the symbol (a fixed lookup here).
get_stock_name(s) == s

IsOpen(row) == row.sale_price = NULL /\ row.sale_time = NULL

TradeRows(tr) == {tr[k] : k \in 1..Len(tr)}

OpenRows(tr, s) == {row \in TradeRows(tr) : row.symbol = s /\ IsOpen(row)}

\* Mutant of get_open_position: the WHERE clause tests IS NOT NULL, so the
\* query looks among the closed rows.
get_open_position_closed(tr, s) ==
    LET rows == {row \in TradeRows(tr) : row.symbol = s /\ ~IsOpen(row)}
        top == CHOOSE row \in rows :
                 \A other \in rows : other.buy_time <= row.buy_time
    IN  IF rows = {} THEN {}
        ELSE {[id |-> top.id, symbol |-> top.symbol, name |-> top.name,
               buy_price |-> top.buy_price, buy_time |-> top.buy_time]}

\* get_open_position: the open row of the symbol with the latest buy_time,
\* as a set holding that row, or {} for None.
get_open_position(tr, s) ==
    LET rows == OpenRows(tr, s)
        top == CHOOSE row \in rows :
                 \A other \in rows : other.buy_time <= row.buy_time
    IN  IF rows = {} THEN {}
        ELSE {[id |-> top.id, symbol |-> top.symbol, name |-> top.name,
               buy_price |-> top.buy_price, buy_time |-> top.buy_time]}

\* UNIQUE(symbol, buy_time) of init_trades_table (NULL buy_times never clash).
ViolatesUnique(tr, s, buy_time) ==
    /\ buy_time # NULL
    /\ \E row \in TradeRows(tr) : row.symbol = s /\ row.buy_time = buy_time

\* Mutant of record_buy: the INSERT is never committed.
record_buy_uncommitted(tr, s, name, price, buy_time) == tr

\* record_buy: INSERT one open row; an IntegrityError is caught and logged,
\* and the table is left as it was.
record_buy(tr, s, name, price, buy_time) ==
    IF ViolatesUnique(tr, s, buy_time) THEN tr
    ELSE Append(tr, [id |-> Len(tr) + 1, symbol |-> s, name |-> name,
                     buy_price |-> price, buy_time |-> buy_time,
                     sale_price |-> NULL, sale_time |-> NULL])

\* Mutant of record_sale: the UPDATE has lost its WHERE clause.
record_sale_every_row(tr, trade_id, price, sale_time) ==
    [k \in 1..Len(tr) |->
        [tr[k] EXCEPT !.sale_price = price, !.sale_time = sale_time]]

\* record_sale: UPDATE ... SET sale_price, sale_time WHERE id = trade_id.
record_sale(tr, trade_id, price, sale_time) ==
    [k \in 1..Len(tr) |->
        IF tr[k].id = trade_id
        THEN [tr[k] EXCEPT !.sale_price = price, !.sale_time = sale_time]
        ELSE tr[k]]

\* Python truthiness of a price: None and 0 are falsy.
Truthy(x) == x # NULL /\ x # 0

\* record_sale's log line: the buy_price it read before the update and the
\* profit it computed from it; <<>> when `if buy_price:` is false.
record_sale_log(tr, trade_id, price) ==
    LET found == {row \in TradeRows(tr) : row.id = trade_id}
        buy_price == IF found = {} THEN NULL
                     ELSE (CHOOSE row \in found : TRUE).buy_price
    IN  IF Truthy(buy_price) THEN <<buy_price, price - buy_price>> ELSE <<>>

\* No direct call has been made.
NoCall == [op |-> "none", symbol |-> "", trade_id |-> NULL, price |-> NULL,
           time |-> NULL]

\* ------------------------------------------------- process_trade_signals

CurRow(p) == trends[p][i[p]]

\* Leaving the function: its locals are gone.
Return(p) ==
    /\ pc' = [pc EXCEPT ![p] = "idle"]
    /\ trends' = [trends EXCEPT ![p] = <<>>]
    /\ i' = [i EXCEPT ![p] = 0]
    /\ open_position' = [open_position EXCEPT ![p] = {}]
    /\ action' = [action EXCEPT ![p] = ""]
    /\ profit' = [profit EXCEPT ![p] = NULL]

\* The for loop's next iteration, or the end of the function.
NextIteration(p) ==
    IF i[p] < Len(trends[p])
    THEN /\ i' = [i EXCEPT ![p] = i[p] + 1]
         /\ pc' = [pc EXCEPT ![p] = "row"]
         /\ UNCHANGED <<trends, open_position, action, profit>>
    ELSE Return(p)

\* The trend agent stores a new cycle's rows under a new timestamp.
WriteTrendCycle(syms) ==
    /\ clock < MaxCycles
    /\ clock' = clock + 1
    /\ \E rows \in TrendCycles(syms, clock + 1) : trend_table' = rows
    /\ UNCHANGED <<trades, pc, trends, i, open_position, action, profit,
                   sale_log, call>>
    /\ UNCHANGED nonLedgerVars

\* Lines 198-213: read the latest trends. (With none, the function returns
\* at once and nothing changes.)
GetLatestTrends(p) ==
    /\ pc[p] = "idle"
    /\ get_latest_trends(trend_table) # <<>>
    /\ trends' = [trends EXCEPT ![p] = get_latest_trends(trend_table)]
    /\ i' = [i EXCEPT ![p] = 1]
    /\ pc' = [pc EXCEPT ![p] = "row"]
    /\ UNCHANGED <<clock, trend_table, trades, open_position, action, profit,
                   sale_log, call>>
    /\ UNCHANGED nonLedgerVars

\* Lines 235-240: a row without a price is skipped.
SkipNoPrice(p) ==
    /\ pc[p] = "row"
    /\ ~Truthy(CurRow(p).Price)
    /\ NextIteration(p)
    /\ UNCHANGED <<clock, trend_table, trades, sale_log, call>>
    /\ UNCHANGED nonLedgerVars

\* Lines 242-251: read the symbol's open position.
ReadOpenPosition(p) ==
    /\ pc[p] = "row"
    /\ Truthy(CurRow(p).Price)
    /\ open_position' =
         [open_position EXCEPT ![p] = get_open_position(trades, CurRow(p).Symbol)]
    /\ action' = [action EXCEPT ![p] = ""]
    /\ pc' = [pc EXCEPT ![p] = "decide"]
    /\ UNCHANGED <<clock, trend_table, trades, trends, i, profit, sale_log, call>>
    /\ UNCHANGED nonLedgerVars

\* Lines 253-262: Up and no open position: record_buy.
BuySignal(p) ==
    /\ pc[p] = "decide"
    /\ CurRow(p).Trend = "Up"
    /\ open_position[p] = {}
    /\ trades' = record_buy(trades, CurRow(p).Symbol,
                            get_stock_name(CurRow(p).Symbol),
                            CurRow(p).Price, CurRow(p).ScrapedAt)
    /\ action' = [action EXCEPT ![p] = "NEW POSITION"]
    /\ pc' = [pc EXCEPT ![p] = "print"]
    /\ UNCHANGED <<clock, trend_table, trends, i, open_position, profit,
                   sale_log, call>>
    /\ UNCHANGED nonLedgerVars

\* Mutant of HoldSignal: the hold branch records a buy as well.
HoldSignalBuysAgain(p) ==
    /\ pc[p] = "decide"
    /\ CurRow(p).Trend = "Up"
    /\ open_position[p] # {}
    /\ trades' = record_buy(trades, CurRow(p).Symbol,
                            get_stock_name(CurRow(p).Symbol),
                            CurRow(p).Price, CurRow(p).ScrapedAt)
    /\ action' = [action EXCEPT ![p] = "HOLD"]
    /\ pc' = [pc EXCEPT ![p] = "print"]
    /\ UNCHANGED <<clock, trend_table, trends, i, open_position, profit,
                   sale_log, call>>
    /\ UNCHANGED nonLedgerVars

\* Lines 263-271: Up and an open position: hold.
HoldSignal(p) ==
    /\ pc[p] = "decide"
    /\ CurRow(p).Trend = "Up"
    /\ open_position[p] # {}
    /\ LET pos == CHOOSE row \in open_position[p] : TRUE
       IN  profit' = [profit EXCEPT ![p] = CurRow(p).Price - pos.buy_price]
    /\ action' = [action EXCEPT ![p] = "HOLD"]
    /\ pc' = [pc EXCEPT ![p] = "print"]
    /\ UNCHANGED <<clock, trend_table, trades, trends, i, open_position,
                   sale_log, call>>
    /\ UNCHANGED nonLedgerVars

\* Lines 273-284: Down and an open position: record_sale.
SellSignal(p) ==
    /\ pc[p] = "decide"
    /\ CurRow(p).Trend = "Down"
    /\ open_position[p] # {}
    /\ LET pos == CHOOSE row \in open_position[p] : TRUE
       IN  /\ trades' = record_sale(trades, pos.id, CurRow(p).Price,
                                    CurRow(p).ScrapedAt)
           /\ sale_log' = record_sale_log(trades, pos.id, CurRow(p).Price)
           /\ profit' = [profit EXCEPT ![p] = CurRow(p).Price - pos.buy_price]
    /\ action' = [action EXCEPT ![p] = "CLOSE"]
    /\ pc' = [pc EXCEPT ![p] = "print"]
    /\ UNCHANGED <<clock, trend_table, trends, i, open_position, call>>
    /\ UNCHANGED nonLedgerVars

\* Lines 285-290: Down and no open position: nothing to close.
NoPositionSignal(p) ==
    /\ pc[p] = "decide"
    /\ CurRow(p).Trend = "Down"
    /\ open_position[p] = {}
    /\ action' = [action EXCEPT ![p] = "NO POSITION"]
    /\ pc' = [pc EXCEPT ![p] = "print"]
    /\ UNCHANGED <<clock, trend_table, trades, trends, i, open_position,
                   profit, sale_log, call>>
    /\ UNCHANGED nonLedgerVars

\* Lines 292-295: print the signal line and go on to the next row.
PrintSignalLine(p) ==
    /\ pc[p] = "print"
    /\ NextIteration(p)
    /\ UNCHANGED <<clock, trend_table, trades, sale_log, call>>
    /\ UNCHANGED nonLedgerVars

\* ----------------------------------------------------------- alert_log
\* The database helpers of core/database.py take the database path and open
\* a connection of their own; the table is what they read and write.

AbsVal(x) == IF x < 0 THEN 0 - x ELSE x

Directions == {"up", "down"}
\* Latest closes a should_alert call is given as current_price.
AlertPrices == {100, 110}
\* pct_change values of move_from_open signals.
PctChanges == {0 - 5, 3}
\* min_alert_gap_min (minutes), re_alert_step_pct and move_pct values a call
\* is given.
MinGaps == {1, 2}
StepPcts == {5, 20}
MovePcts == {2}

\* One alert_log row.
AlertRow(s, at, price, direction, severity) ==
    [symbol |-> s, last_alert_at |-> at, last_alert_price |-> price,
     last_alert_direction |-> direction, last_alert_severity |-> severity]

\* A row whose nullable columns are all NULL (the schema allows it).
NullAlertRow(s) == AlertRow(s, NULL, NULL, "", "")

\* The signals detect_signals builds: move_from_open carries direction and
\* pct_change in its metrics, the other three carry neither.
NoMetrics == [has_direction |-> FALSE, direction |-> "",
              has_pct_change |-> FALSE, pct_change |-> 0]

DetectedSignals(move_pct) ==
    {[signal_type |-> "move_from_open",
      metrics |-> [has_direction |-> TRUE,
                   direction |-> IF pct > 0 THEN "up" ELSE "down",
                   has_pct_change |-> TRUE, pct_change |-> pct],
      severity |-> IF AbsVal(pct) >= move_pct * 2 THEN "high" ELSE "medium"] :
        pct \in {x \in PctChanges : AbsVal(x) >= move_pct}}
    \cup {[signal_type |-> "volume_spike", metrics |-> NoMetrics,
           severity |-> "medium"],
          [signal_type |-> "breakout", metrics |-> NoMetrics,
           severity |-> "high"],
          [signal_type |-> "breakdown", metrics |-> NoMetrics,
           severity |-> "high"]}

\* get_last_alert: the symbol's row, as a set holding it, or {} for None.
get_last_alert(log, s) == {row \in log : row.symbol = s}

\* Mutant of update_alert_log: an existing row keeps its last_alert_price.
update_alert_log_keeps_price(log, s, price, direction, severity, utcnow) ==
    {row \in log : row.symbol # s}
        \cup {AlertRow(s, utcnow,
                       IF \E row \in log : row.symbol = s
                       THEN (CHOOSE row \in log : row.symbol = s).last_alert_price
                       ELSE price,
                       direction, severity)}

\* update_alert_log: INSERT OR REPLACE the symbol's row, stamped utcnow().
update_alert_log(log, s, price, direction, severity, utcnow) ==
    {row \in log : row.symbol # s}
        \cup {AlertRow(s, utcnow, price, direction, severity)}

\* metrics.get("pct_change", 0)
PctChangeOf(metrics) ==
    IF metrics.has_pct_change THEN metrics.pct_change ELSE 0

\* metrics.get("direction", "up" if metrics.get("pct_change", 0) > 0 else "down")
DirectionOf(metrics) ==
    IF metrics.has_direction THEN metrics.direction
    ELSE IF PctChangeOf(metrics) > 0 THEN "up" ELSE "down"

\* severity_levels.get(severity, 0)
SeverityLevel(severity) ==
    CASE severity = "low" -> 1
      [] severity = "medium" -> 2
      [] severity = "high" -> 3
      [] OTHER -> 0

\* abs((current_price - last_price) / last_price * 100) >= re_alert_step_pct,
\* for last_price > 0, without the division.
PriceMovedStep(current_price, last_price, re_alert_step_pct) ==
    AbsVal(current_price - last_price) * 100 >= re_alert_step_pct * last_price

\* Lines 52-77 of should_alert: the checks after the cooldown.
AfterCooldown(last, signal, current_price, re_alert_step_pct, move_pct) ==
    \/ /\ DirectionOf(signal.metrics) # last.last_alert_direction
       /\ AbsVal(PctChangeOf(signal.metrics)) >= move_pct
    \/ /\ last.last_alert_price > 0
       /\ PriceMovedStep(current_price, last.last_alert_price,
                         re_alert_step_pct)
    \/ SeverityLevel(signal.severity) > SeverityLevel(last.last_alert_severity)

\* Mutant of should_alert: only a missing row counts as a first alert.
should_alert_needs_no_row(log, s, signal, current_price, min_gap_min, re_alert_step_pct, move_pct, utcnow) ==
    LET found == get_last_alert(log, s)
        last == CHOOSE row \in found : TRUE
    IN  IF found = {} THEN TRUE
        ELSE IF utcnow - last.last_alert_at < min_gap_min THEN FALSE
        ELSE AfterCooldown(last, signal, current_price, re_alert_step_pct,
                           move_pct)

\* Mutant of should_alert: the cooldown branch returns True.
should_alert_cooldown_alerts(log, s, signal, current_price, min_gap_min, re_alert_step_pct, move_pct, utcnow) ==
    LET found == get_last_alert(log, s)
        last == CHOOSE row \in found : TRUE
    IN  IF found = {} \/ last.last_alert_at = NULL THEN TRUE
        ELSE IF utcnow - last.last_alert_at < min_gap_min THEN TRUE
        ELSE AfterCooldown(last, signal, current_price, re_alert_step_pct,
                           move_pct)

\* Mutant of should_alert: a severity increase does not alert.
should_alert_ignores_severity(log, s, signal, current_price, min_gap_min, re_alert_step_pct, move_pct, utcnow) ==
    LET found == get_last_alert(log, s)
        last == CHOOSE row \in found : TRUE
    IN  IF found = {} \/ last.last_alert_at = NULL THEN TRUE
        ELSE IF utcnow - last.last_alert_at < min_gap_min THEN FALSE
        ELSE \/ /\ DirectionOf(signal.metrics) # last.last_alert_direction
                /\ AbsVal(PctChangeOf(signal.metrics)) >= move_pct
             \/ /\ last.last_alert_price > 0
                /\ PriceMovedStep(current_price, last.last_alert_price,
                                  re_alert_step_pct)

\* should_alert: TRUE is "alert", FALSE is "suppress".
should_alert(log, s, signal, current_price, min_gap_min, re_alert_step_pct, move_pct, utcnow) ==
    LET found == get_last_alert(log, s)
        last == CHOOSE row \in found : TRUE
    IN  IF found = {} \/ last.last_alert_at = NULL THEN TRUE
        ELSE IF utcnow - last.last_alert_at < min_gap_min THEN FALSE
        ELSE AfterCooldown(last, signal, current_price, re_alert_step_pct,
                           move_pct)

\* One throttle decision: should_alert is called for a signal of the symbol,
\* once the decision before it has been acted on.
ShouldAlert ==
    \E s \in Symbols, current_price \in AlertPrices,
       min_gap_min \in MinGaps, re_alert_step_pct \in StepPcts,
       move_pct \in MovePcts :
      \E signal \in DetectedSignals(move_pct) :
        /\ verdict = <<>>
        /\ verdict' = <<[symbol |-> s, signal |-> signal,
                         price |-> current_price,
                         min_gap_min |-> min_gap_min,
                         re_alert_step_pct |-> re_alert_step_pct,
                         move_pct |-> move_pct,
                         result |-> should_alert(alert_log, s, signal,
                                      current_price, min_gap_min,
                                      re_alert_step_pct, move_pct, now)]>>
        /\ UNCHANGED <<alert_log, now>>
        /\ UNCHANGED nonAlertVars

\* Mutant of RecordAlert: the row is written after a suppressed call too.
RecordAlertAlways ==
    /\ verdict # <<>>
    /\ alert_log' = update_alert_log(alert_log, verdict[1].symbol,
                                     verdict[1].price,
                                     DirectionOf(verdict[1].signal.metrics),
                                     verdict[1].signal.severity, now)
    /\ verdict' = <<>>
    /\ UNCHANGED now
    /\ UNCHANGED nonAlertVars

\* After a decision to alert, the symbol's row is overwritten (the caller's
\* update_alert_log, monitor_agent.py lines 146-148).
RecordAlert ==
    /\ verdict # <<>>
    /\ verdict[1].result
    /\ alert_log' = update_alert_log(alert_log, verdict[1].symbol,
                                     verdict[1].price,
                                     DirectionOf(verdict[1].signal.metrics),
                                     verdict[1].signal.severity, now)
    /\ verdict' = <<>>
    /\ UNCHANGED now
    /\ UNCHANGED nonAlertVars

\* After a decision to suppress, the loop goes on to the next signal and
\* nothing is written.
SuppressSignal ==
    /\ verdict # <<>>
    /\ ~verdict[1].result
    /\ verdict' = <<>>
    /\ UNCHANGED <<alert_log, now>>
    /\ UNCHANGED nonAlertVars

\* A minute passes between two evaluations.
Tick ==
    /\ now < MaxNow
    /\ verdict = <<>>
    /\ now' = now + 1
    /\ UNCHANGED <<alert_log, verdict>>
    /\ UNCHANGED nonAlertVars

InitAlertIdle ==
    /\ alert_log = {}
    /\ now = 0
    /\ verdict = <<>>

\* The table starts empty or with rows that carry no last_alert_at.
InitAlertLog ==
    /\ alert_log \in SUBSET {NullAlertRow(s) : s \in Symbols}
    /\ now = 0
    /\ verdict = <<>>

\* ------------------------------------------------------------- signals
\* The bar_id column is nullable: {} is NULL (None), {b} the text b.
BarIds == {{}, {"10:00"}, {"10:30"}}
SignalTypes == {"move_from_open", "breakout"}

\* The columns of a signals row that the UNIQUE constraint and the id use.
SignalRow(id, s, signal_type, bar_id) ==
    [id |-> id, symbol |-> s, signal_type |-> signal_type, bar_id |-> bar_id]

\* UNIQUE(symbol, signal_type, bar_id): SQLite holds two NULLs distinct, so
\* only a row with a bar_id can collide.
ViolatesUniqueSignal(tbl, s, signal_type, bar_id) ==
    /\ bar_id # {}
    /\ \E k \in 1..Len(tbl) :
          /\ tbl[k].symbol = s
          /\ tbl[k].signal_type = signal_type
          /\ tbl[k].bar_id = bar_id

\* store_signal: the table afterwards (sqlite3.IntegrityError inserts
\* nothing).
store_signal(tbl, s, signal_type, bar_id) ==
    IF ViolatesUniqueSignal(tbl, s, signal_type, bar_id)
    THEN tbl
    ELSE Append(tbl, SignalRow(Len(tbl) + 1, s, signal_type, bar_id))

\* store_signal: the value returned, cur.lastrowid or None.
store_signal_returns(tbl, s, signal_type, bar_id) ==
    IF ViolatesUniqueSignal(tbl, s, signal_type, bar_id)
    THEN NULL
    ELSE Len(tbl) + 1

\* One store_signal call.
StoreSignal ==
    \E s \in Symbols, signal_type \in SignalTypes, bar_id \in BarIds :
        /\ Len(signals) < MaxStoreCalls
        /\ signals' = store_signal(signals, s, signal_type, bar_id)
        /\ signal_id' = <<[symbol |-> s, signal_type |-> signal_type,
                           bar_id |-> bar_id,
                           returned |-> store_signal_returns(signals, s,
                                            signal_type, bar_id)]>>
        /\ UNCHANGED <<ledgerVars, alertVars, concVars, detectVars, agentVars, monitorVars>>

\* ------------------------------------------------------ detect_signals
\* A bar field is a number >= 0, NULL (the key is missing, None or text
\* that float() rejects) or NaN (a float that is not a number).
NaN == 0 - 2

\* _safe_float: None and unparseable text become the default; a NaN stays.
safe_float(x, default) == IF x = NULL THEN default ELSE x

\* math.isnan
IsNaN(x) == x = NaN

\* The volume window of signal 2: the 20 bars before the latest.
SpikeWindow == 20

Bar(close, high, low, volume) ==
    [close |-> close, high |-> high, low |-> low, volume |-> volume]

\* The bars a window is built from.
FlatBar == Bar(100, 101, 99, 10)
BarChoices ==
    {FlatBar,
     Bar(103, 104, 99, 20),
     Bar(110, 111, 100, 30),
     Bar(90, 100, 89, 10),
     Bar(100, 101, 99, 0),
     Bar(NULL, NULL, NULL, NULL),
     Bar(100, NULL, 99, 10),
     Bar(NaN, NaN, NaN, 10)}

\* Window lengths around the limits 2, breakout_lookback + 1 and 21.
WindowLengths == {0, 1, 2, 3, 20, 21, 22}

\* A window of n bars, oldest first: flat bars between a first bar and the
\* last two.
MakeBars(n, first, prev, latest) ==
    IF n = 0 THEN <<>>
    ELSE IF n = 1 THEN <<latest>>
    ELSE IF n = 2 THEN <<prev, latest>>
    ELSE <<first>> \o [k \in 1..(n - 3) |-> FlatBar] \o <<prev, latest>>

\* day_open, move_pct, volume_spike_mult and breakout_lookback of a call.
\* With day_open 100 the percentage change is a whole number.
DayOpens == {0, 100}
DetectMovePcts == {2, 5}
SpikeMults == {2}
Lookbacks == {2, 20}

\* bars[-(k+1):-1]: the k bars before the latest (fewer when the window is
\* shorter).
BarsBeforeLatest(bars, k) ==
    LET from == IF Len(bars) - k < 1 THEN 1 ELSE Len(bars) - k
    IN  SubSeq(bars, from, Len(bars) - 1)

RECURSIVE SumSeq(_)
SumSeq(xs) == IF xs = <<>> THEN 0 ELSE Head(xs) + SumSeq(Tail(xs))

MaxOf(S) == CHOOSE x \in S : \A y \in S : y <= x
MinOf(S) == CHOOSE x \in S : \A y \in S : x <= y

\* ((latest_close - day_open) / day_open) * 100.0
PctChangeFromOpen(latest_close, day_open) ==
    ((latest_close - day_open) * 100) \div day_open

\* Mutant of MoveFromOpen: high only above twice the threshold.
MoveFromOpenStrictHigh(latest_close, day_open, move_pct) ==
    LET pct == PctChangeFromOpen(latest_close, day_open)
    IN  IF AbsVal(pct) >= move_pct
        THEN <<[signal_type |-> "move_from_open",
                metrics |-> [has_direction |-> TRUE,
                             direction |-> IF pct > 0 THEN "up" ELSE "down",
                             has_pct_change |-> TRUE, pct_change |-> pct],
                severity |-> IF AbsVal(pct) > move_pct * 2
                             THEN "high" ELSE "medium"]>>
        ELSE <<>>

\* Signal 1, lines 43-56.
MoveFromOpen(latest_close, day_open, move_pct) ==
    LET pct == PctChangeFromOpen(latest_close, day_open)
    IN  IF AbsVal(pct) >= move_pct
        THEN <<[signal_type |-> "move_from_open",
                metrics |-> [has_direction |-> TRUE,
                             direction |-> IF pct > 0 THEN "up" ELSE "down",
                             has_pct_change |-> TRUE, pct_change |-> pct],
                severity |-> IF AbsVal(pct) >= move_pct * 2
                             THEN "high" ELSE "medium"]>>
        ELSE <<>>

\* Mutant of VolumeSpike: the average is taken over the last 20 bars, the
\* latest among them.
VolumeSpikeOwnBar(bars, latest_vol, volume_spike_mult) ==
    IF Len(bars) >= SpikeWindow + 1
    THEN LET win == SubSeq(bars, Len(bars) - SpikeWindow + 1, Len(bars))
             vols == [k \in 1..Len(win) |-> safe_float(win[k].volume, 0)]
         IN  IF /\ Len(vols) > 0
                /\ SumSeq(vols) > 0
                /\ latest_vol * Len(vols) >= volume_spike_mult * SumSeq(vols)
             THEN <<[signal_type |-> "volume_spike", metrics |-> NoMetrics,
                     severity |-> "medium"]>>
             ELSE <<>>
    ELSE <<>>

\* Signal 2, lines 58-74: avg_vol > 0 and latest_vol >= mult * avg_vol, with
\* the average's division by the window length multiplied out.
VolumeSpike(bars, latest_vol, volume_spike_mult) ==
    IF Len(bars) >= SpikeWindow + 1
    THEN LET win == BarsBeforeLatest(bars, SpikeWindow)
             vols == [k \in 1..Len(win) |-> safe_float(win[k].volume, 0)]
         IN  IF /\ Len(vols) > 0
                /\ SumSeq(vols) > 0
                /\ latest_vol * Len(vols) >= volume_spike_mult * SumSeq(vols)
             THEN <<[signal_type |-> "volume_spike", metrics |-> NoMetrics,
                     severity |-> "medium"]>>
             ELSE <<>>
    ELSE <<>>

\* Mutant of BreakoutBreakdown: the two tests are independent.
BreakoutAndBreakdown(bars, latest_close, breakout_lookback) ==
    IF Len(bars) >= breakout_lookback + 1
    THEN LET look == BarsBeforeLatest(bars, breakout_lookback)
             highs == {safe_float(look[k].high, 0) : k \in 1..Len(look)}
             lows == {safe_float(look[k].low, 0) : k \in 1..Len(look)}
             valid_highs == {h \in highs : ~IsNaN(h)}
             valid_lows == {l \in lows : ~IsNaN(l)}
         IN  IF valid_highs # {} /\ valid_lows # {}
             THEN (IF latest_close > MaxOf(valid_highs)
                   THEN <<[signal_type |-> "breakout", metrics |-> NoMetrics,
                           severity |-> "high"]>>
                   ELSE <<>>)
                  \o (IF latest_close < MinOf(valid_lows)
                      THEN <<[signal_type |-> "breakdown",
                              metrics |-> NoMetrics, severity |-> "high"]>>
                      ELSE <<>>)
             ELSE <<>>
    ELSE <<>>

\* Signal 3, lines 76-110.
BreakoutBreakdown(bars, latest_close, breakout_lookback) ==
    IF Len(bars) >= breakout_lookback + 1
    THEN LET look == BarsBeforeLatest(bars, breakout_lookback)
             highs == {safe_float(look[k].high, 0) : k \in 1..Len(look)}
             lows == {safe_float(look[k].low, 0) : k \in 1..Len(look)}
             valid_highs == {h \in highs : ~IsNaN(h)}
             valid_lows == {l \in lows : ~IsNaN(l)}
         IN  IF valid_highs # {} /\ valid_lows # {}
             THEN IF latest_close > MaxOf(valid_highs)
                  THEN <<[signal_type |-> "breakout", metrics |-> NoMetrics,
                          severity |-> "high"]>>
                  ELSE IF latest_close < MinOf(valid_lows)
                  THEN <<[signal_type |-> "breakdown", metrics |-> NoMetrics,
                          severity |-> "high"]>>
                  ELSE <<>>
             ELSE <<>>
    ELSE <<>>

\* Mutant of detect_signals: one bar is enough.
detect_signals_one_bar(bars, day_open, move_pct, volume_spike_mult, breakout_lookback) ==
    IF Len(bars) < 1 THEN <<>>
    ELSE LET latest == bars[Len(bars)]
             latest_close == safe_float(latest.close, 0)
             latest_vol == safe_float(latest.volume, 0)
         IN  IF IsNaN(latest_close) \/ day_open = 0 THEN <<>>
             ELSE MoveFromOpen(latest_close, day_open, move_pct)
                  \o VolumeSpike(bars, latest_vol, volume_spike_mult)
                  \o BreakoutBreakdown(bars, latest_close, breakout_lookback)

\* detect_signals: the list it returns.
detect_signals(bars, day_open, move_pct, volume_spike_mult, breakout_lookback) ==
    IF Len(bars) < 2 THEN <<>>
    ELSE LET latest == bars[Len(bars)]
             latest_close == safe_float(latest.close, 0)
             latest_vol == safe_float(latest.volume, 0)
         IN  IF IsNaN(latest_close) \/ day_open = 0 THEN <<>>
             ELSE MoveFromOpen(latest_close, day_open, move_pct)
                  \o VolumeSpike(bars, latest_vol, volume_spike_mult)
                  \o BreakoutBreakdown(bars, latest_close, breakout_lookback)

\* The arguments of one detect_signals call.
DetectInputs ==
    {[bars |-> MakeBars(n, first, prev, latest), day_open |-> day_open,
      move_pct |-> move_pct, volume_spike_mult |-> volume_spike_mult,
      breakout_lookback |-> breakout_lookback] :
        n \in WindowLengths, first \in BarChoices, prev \in BarChoices,
        latest \in BarChoices, day_open \in DayOpens,
        move_pct \in DetectMovePcts, volume_spike_mult \in SpikeMults,
        breakout_lookback \in Lookbacks}

\* The detect_signals call on the window.
DetectSignals ==
    /\ window # <<>>
    /\ detected = <<>>
    /\ detected' = <<detect_signals(window[1].bars, window[1].day_open,
                                    window[1].move_pct,
                                    window[1].volume_spike_mult,
                                    window[1].breakout_lookback)>>
    /\ UNCHANGED window
    /\ UNCHANGED <<ledgerVars, alertVars, concVars, signalVars, agentVars, monitorVars>>

\* A call is about to be made with any of the inputs.
InitDetectCall ==
    /\ window \in {<<x>> : x \in DetectInputs}
    /\ detected = <<>>

\* ------------------------------------------------------ monitor_symbol
\* What monitor_symbol hands to get_daily_ohlc, store_signal, get_last_alert
\* and update_alert_log: "conn", the open connection, as line 87 has it, and
\* "db_path", the path core/database.py expects (connect(db_path) raises
\* TypeError on a connection).
Handles == {"conn", "db_path"}

\* The window fetch_time_series returned and the day's open: one bar; flat
\* bars (no signal); a move and a breakout; the same with no day's open; a
\* move, a volume spike and a breakout.
MonitorWindows ==
    {[bars |-> MakeBars(1, FlatBar, FlatBar, FlatBar), day_open |-> 100],
     [bars |-> MakeBars(3, FlatBar, FlatBar, FlatBar), day_open |-> 100],
     [bars |-> MakeBars(3, FlatBar, FlatBar, Bar(103, 104, 99, 10)),
      day_open |-> 100],
     [bars |-> MakeBars(3, FlatBar, FlatBar, Bar(103, 104, 99, 10)),
      day_open |-> 0],
     [bars |-> MakeBars(SpikeWindow + 1, FlatBar, FlatBar,
                        Bar(110, 111, 100, 30)), day_open |-> 100]}

\* The latest bar of a window of 2 bars or more carries a datetime
\* (fetch_time_series returns [] otherwise), so its bar_id is not NULL.
MonitorBarIds == BarIds \ {{}}

\* cfg: move_pct, volume_spike_mult, breakout_lookback, re_alert_step_pct
\* and min_alert_gap_min (at least 1, config.py line 114).
MonitorMovePct == 2
MonitorSpikeMult == 2
MonitorLookback == 2
MonitorStepPct == 5
MonitorMinGap == 2

\* The loop of lines 127-148 from signal k on: every signal is stored, and
\* one that is new and passes the throttle is returned and written to the
\* alert log. The loop makes no request and ends within the minute.
RECURSIVE MonitorLoop(_, _, _, _, _)
MonitorLoop(st, sigs, k, x, utcnow) ==
    IF k > Len(sigs) THEN st
    ELSE LET signal == sigs[k]
             latest_price == x.bars[Len(x.bars)].close
             id == store_signal_returns(st.signals, x.symbol,
                                        signal.signal_type, x.bar_id)
             alert == /\ id # NULL
                      /\ should_alert(st.alert_log, x.symbol, signal,
                                      latest_price, MonitorMinGap,
                                      MonitorStepPct, MonitorMovePct, utcnow)
         IN  MonitorLoop(
                 [signals |-> store_signal(st.signals, x.symbol,
                                           signal.signal_type, x.bar_id),
                  alert_log |->
                      IF alert
                      THEN update_alert_log(st.alert_log, x.symbol,
                               latest_price, DirectionOf(signal.metrics),
                               signal.severity, utcnow)
                      ELSE st.alert_log,
                  alertable |->
                      IF alert THEN Append(st.alertable, signal)
                      ELSE st.alertable],
                 sigs, k + 1, x, utcnow)

\* Mutant of monitor_symbol: the alert log is written after the loop.
monitor_symbol_writes_late(tbl, log, x, utcnow) ==
    LET unchanged == [signals |-> tbl, alert_log |-> log, alertable |-> <<>>]
        sigs == detect_signals(x.bars, x.day_open, MonitorMovePct,
                               MonitorSpikeMult, MonitorLookback)
        kept == SelectSeq(sigs, LAMBDA signal :
                    /\ store_signal_returns(tbl, x.symbol, signal.signal_type,
                                            x.bar_id) # NULL
                    /\ should_alert(log, x.symbol, signal,
                                    x.bars[Len(x.bars)].close,
                                    MonitorMinGap, MonitorStepPct,
                                    MonitorMovePct, utcnow))
    IN  IF Len(x.bars) < 2 \/ x.handle = "conn" \/ x.day_open = 0
        THEN unchanged
        ELSE [MonitorLoop(unchanged, sigs, 1, x, utcnow)
                 EXCEPT !.alertable = kept]

\* Mutant of monitor_symbol: a signal that is already stored goes to the
\* throttle like a new one.
monitor_symbol_realerts(tbl, log, x, utcnow) ==
    LET unchanged == [signals |-> tbl, alert_log |-> log, alertable |-> <<>>]
        sigs == detect_signals(x.bars, x.day_open, MonitorMovePct,
                               MonitorSpikeMult, MonitorLookback)
    IN  IF Len(x.bars) < 2 \/ x.handle = "conn" \/ x.day_open = 0
        THEN unchanged
        ELSE MonitorLoop([unchanged EXCEPT !.signals = <<>>], sigs, 1, x, utcnow)

\* monitor_symbol, lines 87-156: the signals table, the alert log and the
\* list returned. Fewer than 2 bars return [] (line 92); with the open
\* connection get_day_open raises TypeError, which line 152 turns into [];
\* a day_open of 0 returns [] (line 106).
monitor_symbol(tbl, log, x, utcnow) ==
    LET unchanged == [signals |-> tbl, alert_log |-> log, alertable |-> <<>>]
        sigs == detect_signals(x.bars, x.day_open, MonitorMovePct,
                               MonitorSpikeMult, MonitorLookback)
    IN  IF Len(x.bars) < 2 \/ x.handle = "conn" \/ x.day_open = 0
        THEN unchanged
        ELSE MonitorLoop(unchanged, sigs, 1, x, utcnow)

\* The arguments and surroundings of one monitor_symbol call.
MonitorInputs ==
    {[handle |-> handle, symbol |-> "AAA", bars |-> w.bars,
      bar_id |-> bar_id, day_open |-> w.day_open] :
        handle \in Handles, w \in MonitorWindows, bar_id \in MonitorBarIds}

\* One monitor_symbol call, from connect to conn.close().
MonitorSymbol ==
    \E x \in MonitorInputs :
        LET after == monitor_symbol(signals, alert_log, x, now)
        IN  /\ signals' = after.signals
            /\ alert_log' = after.alert_log
            /\ monitored' = <<[call |-> x, returned |-> after.alertable]>>
            /\ alerts' = alerts \o
                  [k \in 1..Len(after.alertable) |->
                      [symbol |-> x.symbol, at |-> now]]
            /\ UNCHANGED <<now, verdict, signal_id>>
            /\ UNCHANGED <<ledgerVars, concVars, detectVars, agentVars>>

\* A minute passes between two monitor_symbol calls.
MonitorTick ==
    /\ now < MaxNow
    /\ now' = now + 1
    /\ UNCHANGED <<alert_log, verdict, signals, signal_id, monitorVars>>
    /\ UNCHANGED <<ledgerVars, concVars, detectVars, agentVars>>

InitMonitorIdle ==
    /\ monitored = <<>>
    /\ alerts = <<>>

\* ------------------------------------------- compute_trend_from_slope
\* most_active_trend_agent.py. A close is a positive number or NULL (the key
\* is missing, None or text that float() rejects: safe_float gives None).
ClosePrices == {10, 12}

\* min_r2 is counted in hundredths and min_abs_slope_pct_per_bar in
\* ten-thousandths: determine_trend passes 0.15 and 0.0002.
R2Scale == 100
SlopeScale == 10000
MinR2s == {0, 15, 80}
MinSlopes == {0, 2, 400}
\* n: the default 10, and windows shorter than the closes at hand.
SlopeNs == {3, 5, 10}
\* Numbers of bars of a call.
SlopeLengths == 0..6

\* closes: the closes that safe_float does not turn into None, in the order
\* of the bars.
UsableCloses(bars) ==
    LET closes == [k \in 1..Len(bars) |-> bars[k].close]
    IN  SelectSeq(closes, LAMBDA c : c # NULL)

\* y = closes[-n:] if len(closes) > n else closes[:]
LastN(closes, n) ==
    IF Len(closes) > n
    THEN SubSeq(closes, Len(closes) - n + 1, Len(closes))
    ELSE closes

\* _linear_regression_slope_and_r2 of y on x = 0..k-1, kept in integers:
\*   num = sum (x - x_mean)(y - y_mean) = sum x*y - (k-1)/2 * sum y
\*   den = sum (x - x_mean)^2           = k(k^2 - 1)/12
\*   ss_tot = sum (y - y_mean)^2        = sum y^2 - (sum y)^2 / k
\*   r2 = 1 - ss_res/ss_tot             = num^2 / (den * ss_tot)
\* RegressionNum is 2 * num, RegressionTot is k * ss_tot.
RegressionNum(y) ==
    2 * SumSeq([k \in 1..Len(y) |-> (k - 1) * y[k]]) - (Len(y) - 1) * SumSeq(y)

RegressionTot(y) ==
    Len(y) * SumSeq([k \in 1..Len(y) |-> y[k] * y[k]]) - SumSeq(y) * SumSeq(y)

\* r2 >= min_r2 / relax, with r2 = 3 * (2 num)^2 / ((k^2 - 1) * k ss_tot)
\* and r2 = 0.0 when ss_tot is 0 (or the window has fewer than 2 points).
R2AtLeast(y, min_r2, relax) ==
    IF Len(y) < 2 \/ RegressionTot(y) = 0
    THEN 0 >= min_r2
    ELSE 3 * RegressionNum(y) * RegressionNum(y) * R2Scale * relax
            >= min_r2 * (Len(y) * Len(y) - 1) * RegressionTot(y)

\* slope_pct_per_bar > 0, with slope / avg_price
\*   = 6 * (2 num) / ((k^2 - 1) * sum y); the slope is 0.0 for fewer than 2
\* points.
SlopePctPositive(y) ==
    Len(y) >= 2 /\ RegressionNum(y) * SumSeq(y) > 0

\* slope_pct_per_bar >= min_slope / relax, for a positive slope_pct_per_bar.
SlopePctAtLeast(y, min_slope, relax) ==
    6 * AbsVal(RegressionNum(y)) * SlopeScale * relax
        >= min_slope * (Len(y) * Len(y) - 1) * AbsVal(SumSeq(y))

\* Mutant of Relaxation: the thresholds are never halved.
RelaxationNever(num_bars) == 1

\* The divisor of both thresholds: 1 for 6 points or more, 2 (times 0.5)
\* for 4 or 5 points; below 4 points the thresholds are 0.0.
Relaxation(num_bars) == IF num_bars >= 6 THEN 1 ELSE 2

AdjustedMin(min, num_bars) == IF num_bars >= 4 THEN min ELSE 0

\* Mutant of compute_trend_from_slope: three closes are compared like two.
compute_trend_from_slope_adjacent(bars, n, min_abs_slope_pct_per_bar, min_r2) ==
    LET closes == UsableCloses(bars)
        y == LastN(closes, n)
    IN  IF Len(closes) < 2 THEN FALSE
        ELSE IF Len(closes) = 2 THEN closes[2] > closes[1]
        ELSE IF Len(y) = 3 THEN y[3] > y[2]
        ELSE /\ SumSeq(y) # 0
             /\ R2AtLeast(y, AdjustedMin(min_r2, Len(y)), Relaxation(Len(y)))
             /\ SlopePctPositive(y)
             /\ SlopePctAtLeast(y, AdjustedMin(min_abs_slope_pct_per_bar, Len(y)), Relaxation(Len(y)))

\* compute_trend_from_slope, lines 415-465.
compute_trend_from_slope(bars, n, min_abs_slope_pct_per_bar, min_r2) ==
    LET closes == UsableCloses(bars)
        y == LastN(closes, n)
    IN  IF Len(closes) < 1 THEN FALSE
        ELSE IF Len(closes) = 1 THEN FALSE
        ELSE IF Len(closes) = 2 THEN closes[2] > closes[1]
        ELSE IF Len(y) = 3 THEN y[3] > y[1]
        ELSE /\ SumSeq(y) # 0
             /\ R2AtLeast(y, AdjustedMin(min_r2, Len(y)), Relaxation(Len(y)))
             /\ SlopePctPositive(y)
             /\ SlopePctAtLeast(y, AdjustedMin(min_abs_slope_pct_per_bar, Len(y)), Relaxation(Len(y)))

\* The bars of a call: each close a price or NULL.
CloseBars(len) ==
    [1..len -> {[close |-> c] : c \in ClosePrices \cup {NULL}}]

\* The arguments of one compute_trend_from_slope call.
SlopeInputs ==
    {[bars |-> bars, n |-> n, min_abs_slope_pct_per_bar |-> min_slope,
      min_r2 |-> min_r2] :
        bars \in UNION {CloseBars(len) : len \in SlopeLengths},
        n \in SlopeNs, min_slope \in MinSlopes, min_r2 \in MinR2s}

\* The compute_trend_from_slope call on the arguments.
ComputeTrendFromSlope ==
    /\ slope_call # <<>>
    /\ trend_up = <<>>
    /\ trend_up' = <<compute_trend_from_slope(slope_call[1].bars,
                          slope_call[1].n,
                          slope_call[1].min_abs_slope_pct_per_bar,
                          slope_call[1].min_r2)>>
    /\ UNCHANGED slope_call
    /\ UNCHANGED <<ledgerVars, alertVars, concVars, signalVars, detectVars>>
    /\ UNCHANGED <<trendVars, fetchVars, monitorVars>>

\* A call is about to be made with any of the inputs.
InitSlopeCall ==
    /\ slope_call \in {<<x>> : x \in SlopeInputs}
    /\ trend_up = <<>>

InitSlopeIdle ==
    /\ slope_call = <<>>
    /\ trend_up = <<>>

\* ------------------------------------------------------ determine_trend
\* What process_most_active_trends passes on to compute_trend_from_slope:
\* determine_trend's defaults n = 10, min_abs_slope_pct_per_bar = 0.0002 and
\* min_r2 = 0.15.
DefaultN == 10
DefaultMinSlope == 2
DefaultMinR2 == 15

\* threshold = trade_price * (1.0 + 0.005), in thousandths.
FloorScale == 1000
FloorFactor == 1005

\* prices["Now"] and prices["Start Price"]: a price or None.
NowPrices == {NULL, 100, 101, 200, 201}
StartPrices == {NULL, 100, 201}
\* Numbers of 30-minute bars of a call.
TrendLengths == 0..4

\* yahoo_most_active_trades: no row of the symbol, a closed position, or one
\* open position bought at 100, at 200 or at 0.
MostActiveRow(s, buy_price, sale_price, sale_time) ==
    [id |-> 1, symbol |-> s, name |-> s, buy_price |-> buy_price,
     buy_time |-> 1, sale_price |-> sale_price, sale_time |-> sale_time]

MostActiveTrades ==
    {<<>>, <<MostActiveRow("AAA", 100, 101, 2)>>}
        \cup {<<MostActiveRow("AAA", b, NULL, NULL)>> : b \in {0, 100, 200}}
        \cup {<<MostActiveRow("BBB", 200, NULL, NULL)>>}

\* get_open_position_price: the buy_price of the most recent open position
\* of the symbol, None when there is none or when the price is 0 or NULL.
get_open_position_price(tr, s) ==
    IF OpenRows(tr, s) = {} THEN NULL
    ELSE LET row == CHOOSE r \in OpenRows(tr, s) :
                        \A o \in OpenRows(tr, s) : o.buy_time <= r.buy_time
         IN  IF Truthy(row.buy_price) THEN row.buy_price ELSE NULL

\* bars_30m and len(bars_30m) > 1: the slope is computed.
UsesRegression(bars_30m) == Len(bars_30m) > 1

\* The elif of lines 539-542: no two bars, a start price and a latest price.
UsesFallback(bars_30m, prices) ==
    /\ ~UsesRegression(bars_30m)
    /\ prices.start # NULL
    /\ prices.now # NULL

\* trend_up of lines 530-542.
TrendUp(bars_30m, prices) ==
    IF UsesRegression(bars_30m)
    THEN compute_trend_from_slope(bars_30m, DefaultN, DefaultMinSlope, DefaultMinR2)
    ELSE IF UsesFallback(bars_30m, prices) THEN prices.now > prices.start
    ELSE FALSE

\* latest_price < trade_price * 1.005
BelowFloor(latest_price, trade_price) ==
    latest_price * FloorScale < trade_price * FloorFactor

\* Mutant of determine_trend: the floor is the entry price itself.
determine_trend_floor_at_entry(bars_30m, prices, tr, s) ==
    IF prices.now = NULL THEN "Down"
    ELSE LET trade_price == get_open_position_price(tr, s)
             trend_is_up == TrendUp(bars_30m, prices)
         IN  IF trade_price # NULL
             THEN IF prices.now < trade_price THEN "Down"
                  ELSE IF trend_is_up THEN "Up" ELSE "Down"
             ELSE IF trend_is_up THEN "Up" ELSE "Down"

\* determine_trend, lines 514-552.
determine_trend(bars_30m, prices, tr, s) ==
    IF prices.now = NULL THEN "Down"
    ELSE LET trade_price == get_open_position_price(tr, s)
             trend_is_up == TrendUp(bars_30m, prices)
         IN  IF trade_price # NULL
             THEN IF BelowFloor(prices.now, trade_price) THEN "Down"
                  ELSE IF trend_is_up THEN "Up" ELSE "Down"
             ELSE IF trend_is_up THEN "Up" ELSE "Down"

\* The row process_most_active_trends stores for the symbol (lines 637-647),
\* the four intermediate prices and the cycle's timestamp left out: they do
\* not depend on the path taken.
StoredTrendRow(x) ==
    [Symbol |-> x.symbol,
     Trend |-> determine_trend(x.bars_30m, x.prices, x.trades, x.symbol),
     StartPrice |-> x.prices.start,
     Now |-> x.prices.now]

\* The arguments of one determine_trend call and the trades table it reads.
TrendInputs ==
    {[bars_30m |-> bars, prices |-> [now |-> latest, start |-> start],
      trades |-> tr, symbol |-> "AAA"] :
        bars \in UNION {CloseBars(len) : len \in TrendLengths},
        latest \in NowPrices, start \in StartPrices, tr \in MostActiveTrades}

\* The determine_trend call of process_most_active_trends (line 635).
DetermineTrend ==
    /\ trend_call # <<>>
    /\ trend = <<>>
    /\ trend' = <<determine_trend(trend_call[1].bars_30m, trend_call[1].prices,
                                  trend_call[1].trades, trend_call[1].symbol)>>
    /\ UNCHANGED trend_call
    /\ UNCHANGED <<ledgerVars, alertVars, concVars, signalVars, detectVars>>
    /\ UNCHANGED <<slopeVars, fetchVars, monitorVars>>

InitTrendCall ==
    /\ trend_call \in {<<x>> : x \in TrendInputs}
    /\ trend = <<>>

InitTrendIdle ==
    /\ trend_call = <<>>
    /\ trend = <<>>

\* ----------------------------------------------------- TwelveDataClient
\* What one HTTP attempt of _get meets: a 200 response with the batch, the
\* status 429, another HTTP error status, a 200 response whose JSON is an
\* error payload (a rate-limit one or another), a network exception, a body
\* that is not JSON, and JSON that is a list instead of an object.
Responses ==
    {"ok", "http_429", "http_error", "api_limit", "api_error", "network",
     "bad_json", "not_dict"}

\* for attempt in range(1, 4)
Attempts == 3

\* The exception an attempt raises inside the try block ("" for none).
RaisedInTry(response) ==
    CASE response = "http_error" -> "HTTPError"
      [] response = "api_limit" -> "RuntimeError: rate limit"
      [] response = "api_error" -> "RuntimeError: TwelveData error"
      [] response = "network" -> "ConnectionError"
      [] response = "bad_json" -> "ValueError"
      [] OTHER -> ""

\* One iteration of the loop of _get (lines 185-236) and, after the last
\* one, line 238: the call goes on to the next attempt, returns the data or
\* raises.
get_attempt(attempt, response) ==
    IF response = "http_429"
    THEN \* lines 190-194: sleep and continue, whatever the attempt
         IF attempt < Attempts THEN [ends |-> "retry", error |-> ""]
         ELSE [ends |-> "raise", error |-> "RuntimeError: Unreachable"]
    ELSE IF response = "api_limit" /\ attempt < Attempts
    THEN [ends |-> "retry", error |-> ""]
    ELSE IF RaisedInTry(response) # ""
    THEN IF attempt = Attempts
         THEN [ends |-> "raise", error |-> RaisedInTry(response)]
         ELSE [ends |-> "retry", error |-> ""]
    ELSE [ends |-> "return", error |-> ""]

\* time_series_batch after _get (lines 264-281): the windows of the batch,
\* or the exception that leaves it.
time_series_batch(outcome, response) ==
    IF outcome.ends = "raise" THEN [ends |-> "raise", error |-> outcome.error]
    ELSE IF response = "not_dict"
    THEN [ends |-> "raise", error |-> "AttributeError"]
    ELSE [ends |-> "return", error |-> ""]

\* The phase after a time_series_batch call: the next fetch, the evaluation
\* of the symbols, or the end of the run (the exception leaves
\* process_most_active_trends and main exits with status 1).
AfterBatch(phase, batch) ==
    IF batch.ends = "raise" THEN "crashed"
    ELSE IF phase = "daily" THEN "intraday"
    ELSE "evaluate"

\* One HTTP attempt of the _get call of the current fetch, with all that
\* follows it before the next HTTP request.
HttpAttempt ==
    \E response \in Responses :
        LET log == IF get_outcome = <<>> THEN http_log ELSE <<>>
            attempt == Len(log) + 1
            outcome == get_attempt(attempt, response)
            batch == time_series_batch(outcome, response)
        IN  /\ run.phase \in {"daily", "intraday"}
            /\ attempt <= Attempts
            /\ http_log' = Append(log, response)
            /\ IF outcome.ends = "retry"
               THEN /\ get_outcome' = <<>>
                    /\ UNCHANGED run
               ELSE /\ get_outcome' = <<outcome>>
                    /\ run' = [phase |-> AfterBatch(run.phase, batch),
                               fetched |-> run.phase, error |-> batch.error]
            /\ UNCHANGED <<ledgerVars, alertVars, concVars, signalVars, detectVars>>
            /\ UNCHANGED <<slopeVars, trendVars, monitorVars>>

\* The loop over the symbols and the upsert (lines 615-667).
EvaluateSymbols ==
    /\ run.phase = "evaluate"
    /\ run' = [run EXCEPT !.phase = "stored"]
    /\ UNCHANGED <<http_log, get_outcome>>
    /\ UNCHANGED <<ledgerVars, alertVars, concVars, signalVars, detectVars>>
    /\ UNCHANGED <<slopeVars, trendVars, monitorVars>>

\* process_most_active_trends is about to fetch the daily bars.
InitFetchCall ==
    /\ run = [phase |-> "daily", fetched |-> "", error |-> ""]
    /\ http_log = <<>>
    /\ get_outcome = <<>>

InitFetchIdle ==
    /\ run = [phase |-> "idle", fetched |-> "", error |-> ""]
    /\ http_log = <<>>
    /\ get_outcome = <<>>

\* The most-active trend agent has not run.
InitAgentIdle ==
    InitSlopeIdle /\ InitTrendIdle /\ InitFetchIdle /\ InitMonitorIdle

\* No should_alert call in progress, no signal stored, no detect_signals
\* call made.
InitConcIdle == evaluation = [p \in Procs |-> <<>>]

InitSignalsIdle ==
    /\ signals = <<>>
    /\ signal_id = <<>>

InitDetectIdle ==
    /\ window = <<>>
    /\ detected = <<>>

InitLedger ==
    /\ clock = 0
    /\ trend_table = {}
    /\ trades = <<>>
    /\ pc = [p \in Procs |-> "idle"]
    /\ trends = [p \in Procs |-> <<>>]
    /\ i = [p \in Procs |-> 0]
    /\ open_position = [p \in Procs |-> {}]
    /\ action = [p \in Procs |-> ""]
    /\ profit = [p \in Procs |-> NULL]
    /\ sale_log = <<>>
    /\ call = NoCall

Init ==
    /\ InitLedger
    /\ InitAlertIdle
    /\ InitConcIdle
    /\ InitSignalsIdle
    /\ InitDetectIdle
    /\ InitAgentIdle

\* The pipeline runs the trend agent to its end, then the trade agent: a new
\* cycle is stored only while process_trade_signals is not running.
RunTrendAgent ==
    /\ pc["main"] = "idle"
    /\ WriteTrendCycle(Symbols)

\* Cycles of process_trade_signals run one after another, by one process.
Next ==
    \/ RunTrendAgent
    \/ GetLatestTrends("main")
    \/ SkipNoPrice("main")
    \/ ReadOpenPosition("main")
    \/ BuySignal("main")
    \/ HoldSignal("main")
    \/ SellSignal("main")
    \/ NoPositionSignal("main")
    \/ PrintSignalLine("main")

Spec == Init /\ [][Next]_vars

\* Two processes run process_trade_signals at the same time (two overlapping
\* runs of the pipeline); every database call is one atomic step.
ProcessTradeSignals(p) ==
    \/ GetLatestTrends(p)
    \/ SkipNoPrice(p)
    \/ ReadOpenPosition(p)
    \/ BuySignal(p)
    \/ HoldSignal(p)
    \/ SellSignal(p)
    \/ NoPositionSignal(p)
    \/ PrintSignalLine(p)

NextConc ==
    \/ WriteTrendCycle(ConcSymbols)
    \/ \E p \in Procs : ProcessTradeSignals(p)

SpecConc == Init /\ [][NextConc]_vars

\* ------------------------------------------- the ledger's write operations
\* record_buy and record_sale called directly, with any arguments.
LedgerPrices == {0, 1, 2}
LedgerTimes == {1, 2}
LedgerIds == {1, 2, 3}

CallRecordBuy ==
    \E s \in ConcSymbols, price \in LedgerPrices, t \in LedgerTimes :
        /\ trades' = record_buy(trades, s, get_stock_name(s), price, t)
        /\ call' = [op |-> "record_buy", symbol |-> s, trade_id |-> NULL,
                    price |-> price, time |-> t]
        /\ UNCHANGED <<clock, trend_table, pc, trends, i, open_position,
                       action, profit, sale_log>>
        /\ UNCHANGED nonLedgerVars

CallRecordSale ==
    \E id \in LedgerIds, s \in ConcSymbols, price \in LedgerPrices,
       t \in LedgerTimes :
        /\ trades' = record_sale(trades, id, price, t)
        /\ sale_log' = record_sale_log(trades, id, price)
        /\ call' = [op |-> "record_sale", symbol |-> s, trade_id |-> id,
                    price |-> price, time |-> t]
        /\ UNCHANGED <<clock, trend_table, pc, trends, i, open_position,
                       action, profit>>
        /\ UNCHANGED nonLedgerVars

NextLedger == CallRecordBuy \/ CallRecordSale

SpecLedger == Init /\ [][NextLedger]_vars

NextAlert == ShouldAlert \/ RecordAlert \/ SuppressSignal \/ Tick

InitAlert ==
    /\ InitLedger
    /\ InitAlertLog
    /\ InitConcIdle
    /\ InitSignalsIdle
    /\ InitDetectIdle
    /\ InitAgentIdle

\* One process's should_alert call (monitor_symbol line 138): the row is
\* read and the decision taken on it.
EvalShouldAlert(p) ==
    \E s \in ConcSymbols, current_price \in AlertPrices,
       min_gap_min \in MinGaps, re_alert_step_pct \in StepPcts,
       move_pct \in MovePcts :
      \E signal \in DetectedSignals(move_pct) :
        /\ evaluation[p] = <<>>
        /\ evaluation' = [evaluation EXCEPT ![p] =
              <<[symbol |-> s, signal |-> signal, price |-> current_price,
                 min_gap_min |-> min_gap_min,
                 re_alert_step_pct |-> re_alert_step_pct,
                 move_pct |-> move_pct,
                 result |-> should_alert(alert_log, s, signal, current_price,
                              min_gap_min, re_alert_step_pct, move_pct,
                              now)]>>]
        /\ UNCHANGED <<alert_log, now, verdict>>
        /\ UNCHANGED <<ledgerVars, signalVars, detectVars, agentVars, monitorVars>>

\* The process's update_alert_log call after its decision to alert (lines
\* 140-148).
EvalRecordAlert(p) ==
    /\ evaluation[p] # <<>>
    /\ evaluation[p][1].result
    /\ alert_log' = update_alert_log(alert_log, evaluation[p][1].symbol,
                         evaluation[p][1].price,
                         DirectionOf(evaluation[p][1].signal.metrics),
                         evaluation[p][1].signal.severity, now)
    /\ evaluation' = [evaluation EXCEPT ![p] = <<>>]
    /\ UNCHANGED <<now, verdict>>
    /\ UNCHANGED <<ledgerVars, signalVars, detectVars, agentVars, monitorVars>>

\* The process goes on after a suppressed signal.
EvalSuppressed(p) ==
    /\ evaluation[p] # <<>>
    /\ ~evaluation[p][1].result
    /\ evaluation' = [evaluation EXCEPT ![p] = <<>>]
    /\ UNCHANGED <<alert_log, now, verdict>>
    /\ UNCHANGED <<ledgerVars, signalVars, detectVars, agentVars, monitorVars>>

\* A minute passes, whatever the processes are doing.
TickConc ==
    /\ now < MaxNow
    /\ now' = now + 1
    /\ UNCHANGED <<alert_log, verdict, evaluation>>
    /\ UNCHANGED <<ledgerVars, signalVars, detectVars, agentVars, monitorVars>>

\* Two processes run monitor_symbol for the same symbol at the same time;
\* every database call is one atomic step.
NextAlertConc ==
    \/ TickConc
    \/ \E p \in Procs :
          EvalShouldAlert(p) \/ EvalRecordAlert(p) \/ EvalSuppressed(p)

SpecAlertConc == Init /\ [][NextAlertConc]_vars

InitDetect ==
    /\ InitLedger
    /\ InitAlertIdle
    /\ InitConcIdle
    /\ InitSignalsIdle
    /\ InitDetectCall
    /\ InitAgentIdle

NextDetect == DetectSignals

SpecDetect == InitDetect /\ [][NextDetect]_vars

\* store_signal is called time after time.
NextSignals == StoreSignal

SpecSignals == Init /\ [][NextSignals]_vars

SpecAlert == InitAlert /\ [][NextAlert]_vars

InitSlope ==
    /\ InitLedger
    /\ InitAlertIdle
    /\ InitConcIdle
    /\ InitSignalsIdle
    /\ InitDetectIdle
    /\ InitSlopeCall
    /\ InitTrendIdle
    /\ InitFetchIdle
    /\ InitMonitorIdle

NextSlope == ComputeTrendFromSlope

SpecSlope == InitSlope /\ [][NextSlope]_vars

InitTrend ==
    /\ InitLedger
    /\ InitAlertIdle
    /\ InitConcIdle
    /\ InitSignalsIdle
    /\ InitDetectIdle
    /\ InitSlopeIdle
    /\ InitTrendCall
    /\ InitFetchIdle
    /\ InitMonitorIdle

NextTrend == DetermineTrend

SpecTrend == InitTrend /\ [][NextTrend]_vars

InitFetch ==
    /\ InitLedger
    /\ InitAlertIdle
    /\ InitConcIdle
    /\ InitSignalsIdle
    /\ InitDetectIdle
    /\ InitSlopeIdle
    /\ InitTrendIdle
    /\ InitFetchCall
    /\ InitMonitorIdle

NextFetch == HttpAttempt \/ EvaluateSymbols

SpecFetch == InitFetch /\ [][NextFetch]_vars

\* monitor_symbol is called time after time for the symbol, minutes apart or
\* within the same minute.
NextMonitor == MonitorSymbol \/ MonitorTick

SpecMonitor == Init /\ [][NextMonitor]_vars

\* ================================================================ claims

OpenCount(s) == Cardinality(OpenRows(trades, s))

ClosedRows(tr, s) == {row \in TradeRows(tr) : row.symbol = s /\ ~IsOpen(row)}

\* C1: after any sequence of process_trade_signals cycles run one after
\* another, every symbol has at most one trades row whose sale_price and
\* sale_time are both absent.
C1_AtMostOneOpenPerSymbol ==
    \A s \in Symbols : OpenCount(s) <= 1

\* A symbol was bought, sold and bought again, and holds one open row.
C1_Witness ==
    \E s \in Symbols : OpenCount(s) = 1 /\ ClosedRows(trades, s) # {}

\* C2: two concurrent evaluations of the same symbol that both saw trend Up
\* and no open position do not both open: at most one open row for the
\* symbol exists afterwards.
C2_ConcurrentUpOpensOnce ==
    \A p, q \in Procs :
        (/\ p # q
         /\ pc[p] = "print" /\ action[p] = "NEW POSITION"
         /\ pc[q] = "print" /\ action[q] = "NEW POSITION"
         /\ CurRow(p).Symbol = CurRow(q).Symbol)
        => OpenCount(CurRow(p).Symbol) <= 1

\* C3: once a trades row has its sale_price and sale_time set, no step of a
\* later or concurrent evaluation changes those sale fields.
C3_SaleFieldsSetOnce ==
    [][\A k \in 1..Len(trades) :
          (trades[k].sale_price # NULL /\ trades[k].sale_time # NULL)
          => /\ trades'[k].sale_price = trades[k].sale_price
             /\ trades'[k].sale_time = trades[k].sale_time]_vars

\* C4: whenever process_trade_signals has taken the branch for trend Up, a
\* price and no open position, the symbol has exactly one open position,
\* with buy_price the row's price and buy_time the row's scraped-at time.
C4_UpOpensOnePosition ==
    \A p \in Procs :
        (pc[p] = "print" /\ action[p] = "NEW POSITION")
        => /\ OpenCount(CurRow(p).Symbol) = 1
           /\ \A row \in OpenRows(trades, CurRow(p).Symbol) :
                 /\ row.buy_price = CurRow(p).Price
                 /\ row.buy_time = CurRow(p).ScrapedAt

\* A position was just opened for a symbol that also has a closed trade.
C4_Witness ==
    \E p \in Procs :
        /\ pc[p] = "print" /\ action[p] = "NEW POSITION"
        /\ ClosedRows(trades, CurRow(p).Symbol) # {}
        /\ \E row \in OpenRows(trades, CurRow(p).Symbol) :
              row.buy_time = CurRow(p).ScrapedAt

\* The two no-op cases, told from the table itself.
NoOpCase(p) ==
    /\ pc[p] = "decide"
    /\ \/ CurRow(p).Trend = "Up" /\ OpenRows(trades, CurRow(p).Symbol) # {}
       \/ CurRow(p).Trend = "Down" /\ OpenRows(trades, CurRow(p).Symbol) = {}

\* C5: the decision step for trend Up with an open position, and for trend
\* Down with none, inserts no row and modifies no field of any trades row.
C5_NoOpsLeaveLedgerUnchanged ==
    [][\A p \in Procs :
          (NoOpCase(p) /\ pc'[p] # pc[p]) => trades' = trades]_vars

\* A hold has just been decided for a symbol whose position is open.
C5_Witness ==
    \E p \in Procs :
        /\ pc[p] = "print" /\ action[p] = "HOLD"
        /\ OpenCount(CurRow(p).Symbol) = 1

\* C6: the decision step for trend Down with an open position closes that
\* row with sale_price the row's price and sale_time the cycle timestamp,
\* changes nothing else, and leaves the symbol without an open position.
C6_DownClosesThePosition ==
    [][\A p \in Procs :
          (/\ pc[p] = "decide" /\ pc'[p] # pc[p]
           /\ CurRow(p).Trend = "Down"
           /\ OpenRows(trades, CurRow(p).Symbol) # {})
          => /\ \E k \in 1..Len(trades) :
                  /\ trades[k].symbol = CurRow(p).Symbol
                  /\ IsOpen(trades[k])
                  /\ trades' = [trades EXCEPT
                                  ![k].sale_price = CurRow(p).Price,
                                  ![k].sale_time = CurRow(p).ScrapedAt]
             /\ OpenRows(trades', CurRow(p).Symbol) = {}]_vars

\* A position was just closed while the other symbol's position stays open.
C6_Witness ==
    \E p \in Procs :
        /\ pc[p] = "print" /\ action[p] = "CLOSE"
        /\ \E row \in ClosedRows(trades, CurRow(p).Symbol) :
              /\ row.sale_price = CurRow(p).Price
              /\ row.sale_time = CurRow(p).ScrapedAt
        /\ \E s \in Symbols : s # CurRow(p).Symbol /\ OpenCount(s) = 1

\* C7: record_buy for a symbol that already has an open position inserts
\* nothing, and record_sale for a trade that is not open (unknown id or
\* already closed) changes nothing.
C7_InvalidRequestsAreNoOps ==
    [][(\/ /\ call'.op = "record_buy"
           /\ OpenRows(trades, call'.symbol) # {}
        \/ /\ call'.op = "record_sale"
           /\ ~\E row \in TradeRows(trades) :
                  row.id = call'.trade_id /\ IsOpen(row))
       => trades' = trades]_vars

\* C8: for every position opened at price b and closed at price s, the
\* realized profit record_sale computes at closing is s - b.
C8_ProfitIsSaleMinusBuy ==
    [][\A row \in TradeRows(trades) :
          (/\ call'.op = "record_sale"
           /\ row.id = call'.trade_id
           /\ IsOpen(row))
          => sale_log' = <<row.buy_price, call'.price - row.buy_price>>]_vars


\* The symbol of the last should_alert call has no persisted alert state.
NoPersistedState(v) ==
    \A row \in get_last_alert(alert_log, v.symbol) : row.last_alert_at = NULL

\* C9: should_alert returns alert for every signal and every price when the
\* symbol has no alert_log row, or a row with no last_alert_at.
C9_FirstAlertAlwaysAlerts ==
    \A k \in 1..Len(verdict) :
        NoPersistedState(verdict[k]) => verdict[k].result = TRUE

\* A first alert is decided for a symbol without a row while the other
\* symbol has one.
C9_Witness ==
    /\ verdict # <<>>
    /\ get_last_alert(alert_log, verdict[1].symbol) = {}
    /\ verdict[1].result = TRUE
    /\ \E row \in alert_log : row.last_alert_at # NULL

\* The call repeats the persisted alert inside the cooldown: fewer than
\* min_alert_gap_min minutes since last_alert_at, same direction, same
\* severity, price within re_alert_step_pct of last_alert_price.
RepeatsInCooldown(v, row) ==
    /\ row.last_alert_at # NULL
    /\ now - row.last_alert_at < v.min_gap_min
    /\ DirectionOf(v.signal.metrics) = row.last_alert_direction
    /\ v.signal.severity = row.last_alert_severity
    /\ AbsVal(v.price - row.last_alert_price) * 100
          < v.re_alert_step_pct * row.last_alert_price

\* C10: inside the cooldown, a new evaluation with the same direction, the
\* same severity and a price within re_alert_step_pct of last_alert_price
\* is suppressed.
C10_RepeatInCooldownSuppressed ==
    \A k \in 1..Len(verdict) :
        \A row \in get_last_alert(alert_log, verdict[k].symbol) :
            RepeatsInCooldown(verdict[k], row) => verdict[k].result = FALSE

\* A second call one minute after the alert, identical in price, direction
\* and severity, was suppressed.
C10_Witness ==
    /\ verdict # <<>>
    /\ verdict[1].result = FALSE
    /\ \E row \in get_last_alert(alert_log, verdict[1].symbol) :
          /\ RepeatsInCooldown(verdict[1], row)
          /\ now - row.last_alert_at = 1
          /\ verdict[1].price = row.last_alert_price

\* An override condition of the throttle holds for the call against the row:
\* direction flip with abs(pct_change) >= move_pct, price moved at least
\* re_alert_step_pct percent, or severity strictly higher.
OverrideHolds(v, row) ==
    \/ /\ DirectionOf(v.signal.metrics) # row.last_alert_direction
       /\ AbsVal(PctChangeOf(v.signal.metrics)) >= v.move_pct
    \/ /\ row.last_alert_price > 0
       /\ AbsVal(v.price - row.last_alert_price) * 100
             >= v.re_alert_step_pct * row.last_alert_price
    \/ SeverityLevel(v.signal.severity)
          > SeverityLevel(row.last_alert_severity)

\* C11: inside the cooldown (fewer than min_alert_gap_min minutes since
\* last_alert_at), a call for which an override condition holds returns
\* alert.
C11_OverridesBypassCooldown ==
    \A k \in 1..Len(verdict) :
        \A row \in get_last_alert(alert_log, verdict[k].symbol) :
            ( /\ row.last_alert_at # NULL
              /\ now - row.last_alert_at < verdict[k].min_gap_min
              /\ OverrideHolds(verdict[k], row) )
            => verdict[k].result = TRUE

\* The call finds persisted alert state and the cooldown has passed.
CooldownPassed(v, row) ==
    /\ row.last_alert_at # NULL
    /\ now - row.last_alert_at >= v.min_gap_min

\* C12: with persisted alert state and at least min_alert_gap_min minutes
\* elapsed, should_alert returns alert exactly when the direction flipped
\* with abs(pct_change) >= move_pct, or the price moved at least
\* re_alert_step_pct percent from last_alert_price, or the severity is
\* strictly higher than the persisted one; otherwise it returns suppress.
C12_AlertIffOverrideAfterCooldown ==
    \A k \in 1..Len(verdict) :
        \A row \in get_last_alert(alert_log, verdict[k].symbol) :
            CooldownPassed(verdict[k], row)
                => (verdict[k].result = OverrideHolds(verdict[k], row))

\* After the cooldown a call with the same direction, a price within the
\* step and no higher severity was suppressed.
C12_Witness ==
    /\ verdict # <<>>
    /\ verdict[1].result = FALSE
    /\ \E row \in get_last_alert(alert_log, verdict[1].symbol) :
          /\ CooldownPassed(verdict[1], row)
          /\ verdict[1].price # row.last_alert_price

\* The alert_log rows of the symbols other than s.
OtherRows(log, s) == {row \in log : row.symbol # s}

\* C13: the alert_log changes only in a step that follows a decision to
\* alert, and then only in the row of that decision's symbol; after a
\* suppressed evaluation nothing is written, and rows of other symbols are
\* never touched.
C13_OnlyAlertsWriteAlertState ==
    [][alert_log' # alert_log =>
          /\ verdict # <<>>
          /\ verdict[1].result = TRUE
          /\ OtherRows(alert_log', verdict[1].symbol)
                = OtherRows(alert_log, verdict[1].symbol)]_vars

\* An evaluation of a symbol was suppressed while both symbols have a row
\* with an alert time.
C13_Witness ==
    /\ verdict # <<>>
    /\ verdict[1].result = FALSE
    /\ \A s \in Symbols :
          \E row \in get_last_alert(alert_log, s) : row.last_alert_at # NULL

\* C14: the step after a decision to alert leaves exactly one alert_log row
\* for the symbol, holding the price of that evaluation, the direction and
\* the severity of its signal and the current time as last_alert_at.
C14_AlertOverwritesAlertState ==
    [][(verdict # <<>> /\ verdict[1].result = TRUE) =>
          get_last_alert(alert_log', verdict[1].symbol)
              = {AlertRow(verdict[1].symbol, now, verdict[1].price,
                          DirectionOf(verdict[1].signal.metrics),
                          verdict[1].signal.severity)}]_vars

\* Both symbols were alerted on, one of them again in a later minute at
\* another price than the other's.
C14_Witness ==
    /\ verdict = <<>>
    /\ now > 0
    /\ \E r1 \in alert_log, r2 \in alert_log :
          /\ r1.last_alert_at = now
          /\ r2.last_alert_at = 0
          /\ r1.last_alert_price # r2.last_alert_price

\* What process q's call returns when it runs after process p's write
\* instead of beside it.
AfterTheOther(p, q) ==
    should_alert(update_alert_log(alert_log, evaluation[p][1].symbol,
                     evaluation[p][1].price,
                     DirectionOf(evaluation[p][1].signal.metrics),
                     evaluation[p][1].signal.severity, now),
                 evaluation[q][1].symbol, evaluation[q][1].signal,
                 evaluation[q][1].price, evaluation[q][1].min_gap_min,
                 evaluation[q][1].re_alert_step_pct,
                 evaluation[q][1].move_pct, now)

TripleStored(tbl, s, signal_type, bar_id) ==
    \E k \in 1..Len(tbl) :
        /\ tbl[k].symbol = s
        /\ tbl[k].signal_type = signal_type
        /\ tbl[k].bar_id = bar_id

\* C16: after every store_signal call the signals table holds at most one
\* row per (symbol, signal_type, bar_id), and a call whose triple was already
\* stored inserts nothing and returns None.
C16_OneSignalPerTriple ==
    [][ /\ \A j \in 1..Len(signals'), k \in 1..Len(signals') :
              ( /\ signals'[j].symbol = signals'[k].symbol
                /\ signals'[j].signal_type = signals'[k].signal_type
                /\ signals'[j].bar_id = signals'[k].bar_id ) => j = k
        /\ \A n \in 1..Len(signal_id') :
              TripleStored(signals, signal_id'[n].symbol,
                           signal_id'[n].signal_type, signal_id'[n].bar_id)
                  => /\ signals' = signals
                     /\ signal_id'[n].returned = NULL ]_vars

\* C17: detect_signals returns the empty list whenever the window has
\* fewer than 2 bars or day_open is 0, whatever the thresholds.
C17_InsufficientDataGivesNoSignal ==
    \A k \in 1..Len(detected) :
        (Len(window[1].bars) < 2 \/ window[1].day_open = 0)
            => detected[k] = <<>>

\* A full window whose latest bar closes 10 percent up was given with
\* day_open 0 and the empty list came back.
C17_Witness ==
    /\ detected = <<(<<>>)>>
    /\ window[1].day_open = 0
    /\ Len(window[1].bars) >= SpikeWindow + 1
    /\ window[1].bars[Len(window[1].bars)].close = 110

\* The signals of one type in a returned list.
OfType(list, signal_type) ==
    SelectSeq(list, LAMBDA sig : sig.signal_type = signal_type)

\* The latest close as detect_signals reads it.
LatestClose(w) == safe_float(w.bars[Len(w.bars)].close, 0)

\* abs((latest_close - day_open) / day_open * 100) >= pct, multiplied out;
\* false for a close that is not a number.
MovedFromOpen(w, pct) ==
    /\ ~IsNaN(LatestClose(w))
    /\ AbsVal(LatestClose(w) - w.day_open) * 100 >= pct * AbsVal(w.day_open)

\* C18: for a window of at least 2 bars and a non-zero day_open, a
\* move_from_open signal is emitted exactly when the close moved at least
\* move_pct percent from day_open; it is high exactly when the move is at
\* least 2 * move_pct percent, else medium; its direction is up for a
\* positive change and down otherwise.
C18_MoveFromOpenRule ==
    \A k \in 1..Len(detected) :
        LET w == window[1]
            moves == OfType(detected[k], "move_from_open")
        IN  (Len(w.bars) >= 2 /\ w.day_open # 0) =>
              /\ (moves # <<>>) = MovedFromOpen(w, w.move_pct)
              /\ \A n \in 1..Len(moves) :
                    /\ moves[n].severity =
                          IF MovedFromOpen(w, 2 * w.move_pct)
                          THEN "high" ELSE "medium"
                    /\ moves[n].metrics.direction =
                          IF (LatestClose(w) - w.day_open) * w.day_open > 0
                          THEN "up" ELSE "down"

\* A close exactly 2 * move_pct percent above day_open gave a high signal
\* with direction up.
C18_Witness ==
    /\ detected # <<>>
    /\ window[1].day_open # 0
    /\ \E n \in 1..Len(detected[1]) :
          /\ detected[1][n].signal_type = "move_from_open"
          /\ detected[1][n].severity = "high"
          /\ detected[1][n].metrics.direction = "up"
          /\ detected[1][n].metrics.pct_change = 2 * window[1].move_pct

\* The volume of bar k of the window as detect_signals reads it.
VolumeAt(w, k) == safe_float(w.bars[k].volume, 0)

\* The sum of the volumes of the 20 bars immediately before the latest.
PriorVolumeSum(w) ==
    SumSeq([k \in 1..SpikeWindow |->
                VolumeAt(w, Len(w.bars) - SpikeWindow - 1 + k)])

\* At least 21 bars, an average volume of the 20 bars before the latest
\* that is greater than 0, and a latest volume of at least volume_spike_mult
\* times that average.
SpikeCondition(w) ==
    /\ Len(w.bars) >= SpikeWindow + 1
    /\ PriorVolumeSum(w) > 0
    /\ VolumeAt(w, Len(w.bars)) * SpikeWindow
          >= w.volume_spike_mult * PriorVolumeSum(w)

\* A volume_spike signal is in the list exactly on the spike condition, and
\* it is medium.
SpikeRule(w, list) ==
    /\ (OfType(list, "volume_spike") # <<>>) = SpikeCondition(w)
    /\ \A n \in 1..Len(list) :
          list[n].signal_type = "volume_spike" => list[n].severity = "medium"

\* C19 as stated: for every input, detect_signals emits a volume_spike
\* signal exactly when the window has at least 21 bars, the average volume
\* of the 20 bars before the latest is above 0 and the latest volume is at
\* least volume_spike_mult times that average; its severity is medium.
C19_VolumeSpikeRuleAnyInput ==
    \A k \in 1..Len(detected) : SpikeRule(window[1], detected[k])

\* C19, amended: the same rule for the calls that get past the first
\* checks, that is with a non-zero day_open and a latest close that is a
\* number.
C19_VolumeSpikeRule ==
    \A k \in 1..Len(detected) :
        (window[1].day_open # 0 /\ Len(window[1].bars) >= 2
            /\ ~IsNaN(LatestClose(window[1])))
          => SpikeRule(window[1], detected[k])

\* A window of exactly 21 bars whose latest volume is exactly twice the
\* average of the 20 before it gave a volume_spike.
C19_Witness ==
    /\ detected # <<>>
    /\ Len(window[1].bars) = SpikeWindow + 1
    /\ OfType(detected[1], "volume_spike") # <<>>
    /\ VolumeAt(window[1], Len(window[1].bars)) * SpikeWindow
          = window[1].volume_spike_mult * PriorVolumeSum(window[1])

AllSignalTypes == {"move_from_open", "volume_spike", "breakout", "breakdown"}

\* C20: the list one detect_signals call returns never holds both a
\* breakout and a breakdown signal, and holds at most one signal of each
\* type.
C20_BreakoutBreakdownExclusive ==
    \A k \in 1..Len(detected) :
        /\ ~( /\ OfType(detected[k], "breakout") # <<>>
              /\ OfType(detected[k], "breakdown") # <<>> )
        /\ \A t \in AllSignalTypes : Len(OfType(detected[k], t)) <= 1

\* The latest close was above every high and below every low of the
\* lookback bars (their highs are missing), and a breakout came back.
C20_Witness ==
    /\ detected # <<>>
    /\ OfType(detected[1], "breakout") # <<>>
    /\ LET w == window[1]
           look == BarsBeforeLatest(w.bars, w.breakout_lookback)
       IN  \A k \in 1..Len(look) :
              /\ look[k].high = NULL
              /\ look[k].low # NULL
              /\ look[k].low # NaN
              /\ LatestClose(w) < look[k].low

\* A bar field that holds a number: neither missing or unparseable (NULL)
\* nor NaN.
UsableField(x) == x # NULL /\ x # NaN

\* The highs, and the lows, of the breakout_lookback bars immediately before
\* the latest, the bars whose field is not a number left out.
UsableHighs(w) ==
    LET look == BarsBeforeLatest(w.bars, w.breakout_lookback)
    IN  {look[k].high : k \in {n \in 1..Len(look) : UsableField(look[n].high)}}

UsableLows(w) ==
    LET look == BarsBeforeLatest(w.bars, w.breakout_lookback)
    IN  {look[k].low : k \in {n \in 1..Len(look) : UsableField(look[n].low)}}

\* C21: with at least breakout_lookback + 1 bars (and a call that gets past
\* the first checks: day_open not 0, a latest close that is a number), a
\* breakout is emitted exactly when the latest close exceeds the maximum of
\* the usable highs, and a breakdown exactly when it is below the minimum
\* of the usable lows, of the breakout_lookback bars before the latest; a
\* bar whose high or low is missing or unparseable is left out of them.
C21_BreakRuleIgnoresBadFields ==
    \A k \in 1..Len(detected) :
        LET w == window[1]
        IN  ( /\ Len(w.bars) >= w.breakout_lookback + 1
              /\ w.day_open # 0
              /\ UsableField(w.bars[Len(w.bars)].close) )
            => /\ (OfType(detected[k], "breakout") # <<>>)
                     = ( /\ UsableHighs(w) # {}
                         /\ LatestClose(w) > MaxOf(UsableHighs(w)) )
               /\ (OfType(detected[k], "breakdown") # <<>>)
                     = ( /\ UsableLows(w) # {}
                         /\ LatestClose(w) < MinOf(UsableLows(w)) )

\* C22: when the latest bar's close is missing, unparseable or not a
\* number, detect_signals returns the empty list.
C22_BadCloseGivesNoSignal ==
    \A k \in 1..Len(detected) :
        ( /\ Len(window[1].bars) >= 1
          /\ ~UsableField(window[1].bars[Len(window[1].bars)].close) )
            => detected[k] = <<>>

\* The usable closes of the last compute_trend_from_slope call, and the
\* window the regression is run on.
CallCloses == UsableCloses(slope_call[1].bars)

CallWindow == LastN(CallCloses, slope_call[1].n)

\* C23: for fewer than 4 usable closes (n the default 10, or any n of at
\* least 3), compute_trend_from_slope returns false for 0 closes and for 1
\* close, for 2 closes true exactly when the second is greater than the
\* first, and for 3 closes true exactly when the last is greater than the
\* first.
C23_FewClosesAreCompared ==
    \A k \in 1..Len(trend_up) :
        /\ Len(CallCloses) <= 1 => trend_up[k] = FALSE
        /\ Len(CallCloses) = 2
              => trend_up[k] = (CallCloses[2] > CallCloses[1])
        /\ Len(CallCloses) = 3
              => trend_up[k] = (CallCloses[3] > CallCloses[1])

\* Three usable closes among more bars (one close is missing), the last
\* above the first and not above the second: true came back.
C23_Witness ==
    /\ trend_up = <<TRUE>>
    /\ Len(CallCloses) = 3
    /\ Len(slope_call[1].bars) > 3
    /\ CallCloses[3] > CallCloses[1]
    /\ ~(CallCloses[3] > CallCloses[2])

\* R-squared of the window is at least min_r2 / relax, the slope divided by
\* the window's mean price is above 0 and at least min_slope / relax.
FitConditions(y, min_r2, min_slope, relax) ==
    /\ R2AtLeast(y, min_r2, relax)
    /\ SlopePctPositive(y)
    /\ SlopePctAtLeast(y, min_slope, relax)

\* C24: for 4 or more usable closes and a window (the last n of them) of 4
\* points or more, compute_trend_from_slope returns true exactly when
\* R-squared >= the adjusted minimum fit, the normalized slope is > 0 and
\* >= the adjusted minimum slope; the adjusted thresholds are the
\* configured ones for a window of 6 points or more and half of them for a
\* window of 4 or 5 points.
C24_RegressionWithRelaxedThresholds ==
    \A k \in 1..Len(trend_up) :
        LET min_r2 == slope_call[1].min_r2
            min_slope == slope_call[1].min_abs_slope_pct_per_bar
        IN  /\ Len(CallWindow) >= 6 =>
                 trend_up[k] = FitConditions(CallWindow, min_r2, min_slope, 1)
            /\ Len(CallWindow) \in {4, 5} =>
                 trend_up[k] = FitConditions(CallWindow, min_r2, min_slope, 2)

\* More closes than n, a window of 5 points that meets the halved thresholds
\* and not the configured ones: true came back.
C24_Witness ==
    /\ trend_up = <<TRUE>>
    /\ Len(CallCloses) > slope_call[1].n
    /\ Len(CallWindow) = 5
    /\ ~FitConditions(CallWindow, slope_call[1].min_r2,
                      slope_call[1].min_abs_slope_pct_per_bar, 1)

\* The open position of the symbol of the last determine_trend call.
CallOpenRows == OpenRows(trend_call[1].trades, trend_call[1].symbol)

\* The symbol has an open position and the latest price is below its
\* buy_price * 1.005.
ForcedDown ==
    \E row \in CallOpenRows :
        trend_call[1].prices.now * FloorScale < row.buy_price * FloorFactor

\* C25: with a latest price, determine_trend returns Down whenever the
\* symbol has an open position (any buy_price) and the latest price is below
\* buy_price * 1.005, whatever the regression or fallback result; in every
\* other case it returns Up exactly when that result is uptrend.
C25_OpenPositionFloorForcesDown ==
    \A k \in 1..Len(trend) :
        trend_call[1].prices.now # NULL =>
            /\ ForcedDown => trend[k] = "Down"
            /\ ~ForcedDown =>
                 (trend[k] = "Up")
                    = TrendUp(trend_call[1].bars_30m, trend_call[1].prices)

\* An open position bought at 100, a latest price of 100 and bars that
\* regress to an uptrend: Down came back.
C25_Witness ==
    /\ trend = <<"Down">>
    /\ ForcedDown
    /\ UsesRegression(trend_call[1].bars_30m)
    /\ TrendUp(trend_call[1].bars_30m, trend_call[1].prices)

\* C26: a call computed by the start-versus-latest fallback is
\* distinguishable, in what determine_trend returns and in the row that is
\* stored, from a call computed by the regression path: no call that took
\* the regression path yields the same row.
C26_FallbackIsDistinguishable ==
    \A k \in 1..Len(trend) :
        UsesFallback(trend_call[1].bars_30m, trend_call[1].prices) =>
            \A x \in TrendInputs :
                UsesRegression(x.bars_30m)
                    => StoredTrendRow(x) # StoredTrendRow(trend_call[1])

\* C27: every bar-fetch failure reaches the core as an empty bar window and
\* the evaluation cycle goes on: no failed fetch ends the run with an
\* exception.
C27_FetchFailureIsEmptyWindow ==
    \A k \in 1..Len(get_outcome) :
        (get_outcome[k].ends = "raise" \/ http_log[Len(http_log)] # "ok")
            => run.phase # "crashed"

\* C30: _get ends after at most 3 HTTP attempts, by returning the data or
\* by raising the error of the last failed attempt; its last statement,
\* raise RuntimeError("Unreachable"), is never executed.
C30_GetEndsWithinThreeAttempts ==
    /\ Len(http_log) <= Attempts
    /\ \A k \in 1..Len(get_outcome) :
          /\ get_outcome[k].ends \in {"return", "raise"}
          /\ get_outcome[k].ends = "raise"
                => /\ get_outcome[k].error # "RuntimeError: Unreachable"
                   /\ get_outcome[k].error = RaisedInTry(http_log[Len(http_log)])

\* The signals the call x detects, when it gets as far as detect_signals.
MonitorDetected(x) ==
    IF Len(x.bars) < 2 \/ x.day_open = 0 THEN <<>>
    ELSE detect_signals(x.bars, x.day_open, MonitorMovePct, MonitorSpikeMult,
                        MonitorLookback)

\* C28: in a sequential run of monitor_symbol calls, two alerts for the same
\* symbol are at least min_alert_gap_min minutes apart, and one pass returns
\* at most one alertable signal.
C28_AlertsAreMinGapApart ==
    /\ \A j \in 1..Len(alerts) : \A k \in (j + 1)..Len(alerts) :
          alerts[j].symbol = alerts[k].symbol
              => alerts[k].at - alerts[j].at >= MonitorMinGap
    /\ \A k \in 1..Len(monitored) : Len(monitored[k].returned) <= 1

\* A pass that detected a move, a volume spike and a breakout returned the
\* move alone, min_alert_gap_min minutes after the alert before it.
C28_Witness ==
    /\ Len(alerts) >= 2
    /\ monitored # <<>>
    /\ Len(monitored[1].returned) = 1
    /\ Len(MonitorDetected(monitored[1].call)) = 3
    /\ Len(monitored[1].call.bars) = SpikeWindow + 1
    /\ monitored[1].call.bars[SpikeWindow + 1] = Bar(110, 111, 100, 30)
    /\ alerts[Len(alerts)].at - alerts[Len(alerts) - 1].at = MonitorMinGap

\* Every (symbol, signal_type, bar_id) the call detects is in the table.
AllDetectedStored(tbl, x) ==
    \A k \in 1..Len(MonitorDetected(x)) :
        TripleStored(tbl, x.symbol, MonitorDetected(x)[k].signal_type, x.bar_id)

\* C29: a monitor_symbol call whose detected signals are all stored already
\* (a second run on the same latest bar) returns no alertable signal, stores
\* no signal row and leaves the alert log unchanged, whatever the time.
C29_MonitorSymbolIsIdempotent ==
    [][ \A k \in 1..Len(monitored') :
            (monitored' # monitored \/ signals' # signals
                \/ alert_log' # alert_log)
            /\ AllDetectedStored(signals, monitored'[k].call)
          => /\ monitored'[k].returned = <<>>
             /\ signals' = signals
             /\ alert_log' = alert_log ]_vars

\* The window that gave a move and a breakout is seen again after the
\* cooldown, its rows stored and the last alert a medium one: nothing is
\* returned.
C29_Witness ==
    /\ monitored # <<>>
    /\ monitored[1].call.handle = "db_path"
    /\ monitored[1].returned = <<>>
    /\ Len(MonitorDetected(monitored[1].call)) >= 2
    /\ AllDetectedStored(signals, monitored[1].call)
    /\ \E row \in alert_log :
          /\ row.symbol = monitored[1].call.symbol
          /\ row.last_alert_severity = "medium"
          /\ now - row.last_alert_at >= MonitorMinGap

====
